---------------------------- MODULE Spec2Model ----------------------------
(***************************************************************************)
(* A model of the financial data retrieval and valuation engine of         *)
(* src/src/utils.py: get_pl_bs_cashflow (paginated, retrying fetch of the  *)
(* statement records) and calculate_valuation_metrics (record selection,   *)
(* retrying price lookup, guarded ratios), and of the web application     *)
(* around them: the login gate of src/src/login.py and src/src/main.py    *)
(* and the search callback execute_search of src/src/dashboard.py.        *)
(*                                                                         *)
(* Floating point values are modelled as exact rationals [t, n, d] with    *)
(* the tags "num" (n/d, d > 0, lowest terms), "nan", "inf" and "ninf";     *)
(* the raw values of a provider record use the same shape with the tags    *)
(* "num" (a JSON number or a numeric string), "empty" (""), "text" (a      *)
(* non-numeric string) and "null" (JSON null / None).  A key that is       *)
(* missing from a record is missing from the DOMAIN of the record.         *)
(***************************************************************************)
EXTENDS Integers, Sequences, FiniteSets, TLC

VARIABLES
    \* ---- get_pl_bs_cashflow ----
    fpc,         \* position of the call: "idle", "request", "page", "done"
    code,        \* the argument `code`
    attempt,     \* the loop variable of `for attempt in range(max_retries)`
    params_key,  \* params["pagination_key"]; 0 when the key is not in params
    d_key,       \* d["pagination_key"]; 0 when "pagination_key" not in d
    data,        \* the accumulator `data` (indices into RecordPool)
    fresult,     \* the returned tuple [pl, bs, cf]
    nreq,        \* number of requests.get calls made by the call
    fsleeps,     \* number of time.sleep calls made by the call
    \* ---- observers of the call (history, not program state) ----
    sentKey,     \* pagination_key carried by the last request (0: none)
    lastReq,     \* kind of the last request: "none", "initial", "page"
    prevRet,     \* pagination_key of the response before the last request
    clean,       \* every response of the call so far was HTTP 200 with a JSON body
    keyless,     \* a 200 response without pagination_key has been received
    late,        \* a request was made after the first keyless 200 response
    served,      \* records of the pages P1..Pn up to the first keyless page
    nserved,     \* number of those pages
    all500,      \* every response of the call so far was a non-200 status
    ok200,       \* an initial request of the call has returned HTTP 200
    restarted,   \* an attempt was started after ok200
    pageFailed,  \* a page request (after the first request) has failed
    failAccum,   \* the records accumulated before the first failed page request
    walk,        \* pages served with a pagination_key in the current attempt
    \* ---- calculate_valuation_metrics ----
    cpc,            \* position of the call: "idle", "price", "done"
    yf_code,        \* the argument yf_code (a character sequence)
    pl_data,        \* the argument pl_data
    bs_data,        \* the argument bs_data
    latest_pl_annual,    \* the selected row of pl_df
    latest_bs_snapshot,  \* the selected row of bs_df
    is_annual_data,
    eps, np_val, bps, equity_latest, ta_latest,
    hist,           \* "empty", "noclose" (rows without a Close column), "rows"
    current_price,  \* Unbound until line 333 has assigned it
    cattempt,       \* the loop variable of the price loop
    csleeps,        \* number of time.sleep calls made by the call
    lookups,        \* number of ticker.history calls made by the call
    cresult,        \* what the call returned or raised
    \* ---- observers of the call and of a repeated call ----
    priceLog,       \* the answers of the price provider to the call, in order
    pl_order,       \* the row order sort_values gave pl_df
    bs_order,       \* the row order sort_values gave bs_df
    ncall,          \* 1 during the first call, 2 during a repeated call
    firstCall,      \* the inputs, price answers and outcome of the first call
    \* ---- the web application (main.py, login.py, dashboard.py) ----
    pathname,       \* the pathname of dcc.Location(id="url")
    pending,        \* display_page has to run for the current pathname
    page_content,   \* the layout in page-content: "none", "login", "dashboard"
    login_alert,    \* the children of login-alert
    verified,       \* verify_password was called with the correct password
    spc,            \* position of execute_search: "idle", "fetch", "calc",
                    \* "render", "done"
    rows,           \* the rows of selected_comapnies_df (row ids)
    irow,           \* the row the for loop of execute_search is at
    company_blocks, \* the list company_blocks (row ids)
    sresult         \* what execute_search returned or raised

fvars == <<fpc, code, attempt, params_key, d_key, data, fresult, nreq, fsleeps,
           sentKey, lastReq, prevRet, clean, keyless, late, served, nserved,
           all500, ok200, restarted, pageFailed, failAccum, walk>>

cvars == <<cpc, yf_code, pl_data, bs_data, latest_pl_annual, latest_bs_snapshot,
           is_annual_data, eps, np_val, bps, equity_latest, ta_latest, hist,
           current_price, cattempt, csleeps, lookups, cresult,
           priceLog, pl_order, bs_order, ncall, firstCall>>

avars == <<pathname, pending, page_content, login_alert, verified,
           spc, rows, irow, company_blocks, sresult>>

vars == <<fvars, cvars, avars>>

-----------------------------------------------------------------------------
(* Bounds of the model *)

\* records in the pl_data argument of calculate_valuation_metrics
MaxPL == 2
\* records in the bs_data argument of calculate_valuation_metrics
MaxBS == 2

\* records in each list of a call of calculate_valuation_metrics that the
\* caller repeats
MaxRepeat == 1

\* pages the provider serves with a pagination_key in one pagination walk
MaxPages == 2
\* distinct pagination keys the provider hands out
MaxKey == 2

-----------------------------------------------------------------------------
(* Floating point values as exact rationals *)

RECURSIVE GCD(_, _)
GCD(a, b) == IF b = 0 THEN a ELSE GCD(b, a % b)

Abs(x) == IF x < 0 THEN -x ELSE x

Num(k) == [t |-> "num", n |-> k, d |-> 1]
NaN == [t |-> "nan", n |-> 0, d |-> 1]
PosInf == [t |-> "inf", n |-> 0, d |-> 1]
NegInf == [t |-> "ninf", n |-> 0, d |-> 1]
RawEmpty == [t |-> "empty", n |-> 0, d |-> 1]
RawText == [t |-> "text", n |-> 0, d |-> 1]
RawNull == [t |-> "null", n |-> 0, d |-> 1]
\* the string "NaN"
RawNaNStr == [t |-> "nanstr", n |-> 0, d |-> 1]
\* Python's None as the value of a ratio
PyNone == [t |-> "none", n |-> 0, d |-> 1]
\* a local variable that was never assigned
Unbound == [t |-> "unbound", n |-> 0, d |-> 1]
\* the value of an expression that raised ZeroDivisionError
ZeroDiv == [t |-> "zde", n |-> 0, d |-> 1]

\* the rational p/q (q # 0) in lowest terms with a positive denominator
Rat(p, q) ==
    LET g == GCD(Abs(p), Abs(q))
        s == IF q < 0 THEN -1 ELSE 1
    IN  [t |-> "num", n |-> (s * p) \div g, d |-> (s * q) \div g]

IsNum(x) == x.t = "num"
IsNaN(x) == x.t = "nan"

\* x > 0 on floats: False when x is NaN
Gt0(x) == \/ x.t = "inf"
          \/ x.t = "num" /\ x.n > 0

\* x <= 0 on floats: False when x is NaN
Le0(x) == \/ x.t = "ninf"
          \/ x.t = "num" /\ x.n <= 0

\* a - b, a + b and a / b on finite floats and NaN (pandas / Python float)
\* FSub with its operands exchanged
FSub_Reversed(a, b) ==
    IF IsNum(a) /\ IsNum(b) THEN Rat(b.n * a.d - a.n * b.d, a.d * b.d) ELSE NaN

FSub(a, b) ==
    IF IsNum(a) /\ IsNum(b) THEN Rat(a.n * b.d - b.n * a.d, a.d * b.d) ELSE NaN

FAdd(a, b) ==
    IF IsNum(a) /\ IsNum(b) THEN Rat(a.n * b.d + b.n * a.d, a.d * b.d) ELSE NaN

FMul(a, b) ==
    IF IsNum(a) /\ IsNum(b) THEN Rat(a.n * b.n, a.d * b.d) ELSE NaN

\* numpy division of two float columns: x/0 is +-inf, 0/0 is NaN, no exception
NpDiv(a, b) ==
    IF ~(IsNum(a) /\ IsNum(b)) THEN NaN
    ELSE IF b.n = 0
         THEN (IF a.n = 0 THEN NaN ELSE IF a.n > 0 THEN PosInf ELSE NegInf)
         ELSE Rat(a.n * b.d, a.d * b.n)

-----------------------------------------------------------------------------
(* Provider records *)

\* DocType values are character sequences, so that the selector's pattern
\* match is computed; the names are shortened forms of the provider's
\* FYFinancialStatements_... and 2QFinancialStatements_...
DocFY == <<"F", "Y", "F", "S">>
Doc2Q == <<"2", "Q", "F", "S">>
DocLowerFY == <<"f", "y", "f", "s">>
DocSemiAnnual == <<"S", "e", "m", "i", "a", "n", "n", "u", "a", "l">>
\* the cell of a text column whose key is missing from the record (NaN)
MissingDoc == <<"NaN">>
MissingCode == "NaN"
\* period ends are day numbers >= 1; 0 is a missing date (NaT after parsing)
\* and -1 a string that pd.to_datetime cannot parse
MissingDate == 0
BadDate == 0 - 1

pl_cols == {"Code", "DocType", "CurPerEn", "CurFYEn",
            "Sales", "OP", "OdP", "NP", "EPS", "DEPS"}
bl_cols == {"Code", "DocType", "CurPerEn", "CurFYEn",
            "TA", "CashEq", "Eq", "EqAR", "BPS"}
cf_cols == {"Code", "DocType", "CurPerEn", "CurFYEn",
            "CFO", "CFI", "CFF", "CashEq"}
numeric_cols == {"Sales", "OP", "OdP", "NP", "EPS", "DEPS", "TA", "CashEq",
                 "Eq", "EqAR", "BPS", "CFO", "CFI", "CFF"}

\* a complete annual filing
RFull ==
    [Code |-> "7203", DocType |-> DocFY, CurPerEn |-> 2, CurFYEn |-> 2,
     Sales |-> Num(100), OP |-> Num(10), OdP |-> Num(12), NP |-> Num(8),
     EPS |-> Num(4), DEPS |-> Num(4),
     TA |-> Num(200), CashEq |-> Num(30), Eq |-> Num(80), EqAR |-> Rat(2, 5),
     BPS |-> Num(40), CFO |-> Num(15), CFI |-> Num(0 - 5), CFF |-> Num(0 - 3)]

\* an interim entry with no statement body: Sales is "", OdP is not a number,
\* NP is null and the keys EPS and TA are missing from the record
RGap ==
    [Code |-> "7203", DocType |-> Doc2Q, CurPerEn |-> 3, CurFYEn |-> 4,
     Sales |-> RawEmpty, OP |-> Num(5), OdP |-> RawText, NP |-> RawNull,
     DEPS |-> RawEmpty,
     CashEq |-> Num(20), Eq |-> Num(90), EqAR |-> RawEmpty,
     BPS |-> RawText, CFO |-> Num(7), CFI |-> RawText, CFF |-> RawNull]

RecordPool == <<RFull, RGap>>

PoolIds == 1..Len(RecordPool)

\* the data list of one page of the provider: no record, or one record
PageData == {<<>>} \cup {<<i>> : i \in PoolIds}

-----------------------------------------------------------------------------
(* get_pl_bs_cashflow: post-processing of the accumulated records *)

max_retries == 3

\* the columns of pd.DataFrame(data): the union of the keys of the records
FrameColumns(dat) == UNION {DOMAIN RecordPool[dat[i]] : i \in 1..Len(dat)}

\* the cell of record r in column c: NaN where the record has no such key
Cell(r, c) == IF c \in DOMAIN r THEN r[c] ELSE NaN

\* pd.to_numeric(..., errors="coerce"): what is not a number becomes NaN
ToNumeric(x) == IF x.t \in {"num", "inf", "ninf"} THEN x ELSE NaN

\* .fillna(0)
FillNa0(x) == IF IsNaN(x) THEN Num(0) ELSE x

\* df[col] = pd.to_numeric(df[col], errors="coerce").fillna(0), one cell
Coerce(r, c) == FillNa0(ToNumeric(Cell(r, c)))

CodeCell(r) == IF "Code" \in DOMAIN r THEN r["Code"] ELSE MissingCode
DocCell(r) == IF "DocType" \in DOMAIN r THEN r["DocType"] ELSE MissingDoc
DateCell(r, c) == IF c \in DOMAIN r THEN r[c] ELSE MissingDate

\* df[col] and df[pl_cols] raise KeyError for a column no record has
FrameOK(dat) ==
    /\ numeric_cols \subseteq FrameColumns(dat)
    /\ (pl_cols \cup bl_cols \cup cf_cols) \subseteq FrameColumns(dat)

PlRecord(r) ==
    [Code |-> CodeCell(r), DocType |-> DocCell(r),
     CurPerEn |-> DateCell(r, "CurPerEn"), CurFYEn |-> DateCell(r, "CurFYEn"),
     Sales |-> Coerce(r, "Sales"), OP |-> Coerce(r, "OP"),
     OdP |-> Coerce(r, "OdP"), NP |-> Coerce(r, "NP"),
     EPS |-> Coerce(r, "EPS"), DEPS |-> Coerce(r, "DEPS"),
     Operating_Margin |-> NpDiv(Coerce(r, "OP"), Coerce(r, "Sales"))]

BsRecord(r) ==
    [Code |-> CodeCell(r), DocType |-> DocCell(r),
     CurPerEn |-> DateCell(r, "CurPerEn"), CurFYEn |-> DateCell(r, "CurFYEn"),
     TA |-> Coerce(r, "TA"), CashEq |-> Coerce(r, "CashEq"),
     Eq |-> Coerce(r, "Eq"), EqAR |-> Coerce(r, "EqAR"),
     BPS |-> Coerce(r, "BPS"),
     Liabilities |-> FSub(Coerce(r, "TA"), Coerce(r, "Eq")),
     Equity_Ratio |-> NpDiv(Coerce(r, "Eq"), Coerce(r, "TA"))]

CfRecord(r) ==
    [Code |-> CodeCell(r), DocType |-> DocCell(r),
     CurPerEn |-> DateCell(r, "CurPerEn"), CurFYEn |-> DateCell(r, "CurFYEn"),
     CFO |-> Coerce(r, "CFO"), CFI |-> Coerce(r, "CFI"),
     CFF |-> Coerce(r, "CFF"), CashEq |-> Coerce(r, "CashEq"),
     Free_Cash_Flow |-> FAdd(Coerce(r, "CFO"), Coerce(r, "CFI"))]

\* StatementRecords with the PL rows without revenue left out
StatementRecords_PlFiltered(dat) ==
    [pl |-> SelectSeq([i \in 1..Len(dat) |-> PlRecord(RecordPool[dat[i]])],
                      LAMBDA r : r.Sales # Num(0)),
     bs |-> [i \in 1..Len(dat) |-> BsRecord(RecordPool[dat[i]])],
     cf |-> [i \in 1..Len(dat) |-> CfRecord(RecordPool[dat[i]])]]

\* the returned tuple (pl_df.to_dict("records"), bs_df..., cf_df...)
StatementRecords(dat) ==
    [pl |-> [i \in 1..Len(dat) |-> PlRecord(RecordPool[dat[i]])],
     bs |-> [i \in 1..Len(dat) |-> BsRecord(RecordPool[dat[i]])],
     cf |-> [i \in 1..Len(dat) |-> CfRecord(RecordPool[dat[i]])]]

\* return [], [], []
EmptyStatements == [pl |-> <<>>, bs |-> <<>>, cf |-> <<>>]

-----------------------------------------------------------------------------
(* get_pl_bs_cashflow: the provider and the retry / pagination loops *)

Codes == {"", "7203"}

\* what one requests.get can come to: it raises ("raise"), it returns a
\* non-200 status ("status"), it returns 200 with a body res.json() cannot
\* parse ("badjson"), or it returns 200 with a body that has a data list and,
\* when key > 0, a pagination_key ("ok")
Responses ==
    {[kind |-> k, key |-> 0, data |-> <<>>] : k \in {"raise", "status", "badjson"}}
    \cup {[kind |-> "ok", key |-> k, data |-> p] :
            k \in (IF walk < MaxPages THEN 0..MaxKey ELSE {0}), p \in PageData}

\* the observers of one request and its response
Observe(resp, isPage) ==
    LET okr == resp.kind = "ok"
        cl == clean /\ okr
    IN  /\ nreq' = nreq + 1
        /\ lastReq' = (IF isPage THEN "page" ELSE "initial")
        /\ prevRet' = (IF isPage THEN d_key ELSE 0)
        /\ clean' = cl
        /\ keyless' = (keyless \/ (okr /\ resp.key = 0))
        /\ late' = (late \/ keyless)
        /\ served' = (IF ~cl THEN <<>>
                      ELSE IF ~keyless THEN served \o resp.data ELSE served)
        /\ nserved' = (IF ~cl THEN 0
                       ELSE IF ~keyless THEN nserved + 1 ELSE nserved)
        /\ all500' = (all500 /\ resp.kind = "status")
        /\ ok200' = (ok200 \/ (~isPage /\ okr))
        /\ restarted' = (restarted \/ (~isPage /\ ok200))
        /\ pageFailed' = (pageFailed \/ (isPage /\ ~okr))
        /\ failAccum' = (IF isPage /\ ~okr /\ ~pageFailed THEN data ELSE failAccum)

\* RetryOrGiveUp with a loop that runs one turn too many
RetryOrGiveUp_ExtraTurn ==
    /\ fsleeps' = fsleeps + 1
    /\ walk' = 0
    /\ IF attempt + 1 < max_retries + 1
       THEN /\ attempt' = attempt + 1
            /\ fpc' = "request"
            /\ fresult' = fresult
       ELSE /\ attempt' = attempt
            /\ fpc' = "done"
            /\ fresult' = EmptyStatements

\* the failure branches (lines 236-244): log, sleep, and the next turn of the
\* for loop; after the last turn the function returns [], [], []
RetryOrGiveUp ==
    /\ fsleeps' = fsleeps + 1
    /\ walk' = 0
    /\ IF attempt + 1 < max_retries
       THEN /\ attempt' = attempt + 1
            /\ fpc' = "request"
            /\ fresult' = fresult
       ELSE /\ attempt' = attempt
            /\ fpc' = "done"
            /\ fresult' = EmptyStatements

\* lines 216-235 on the accumulated records dat: the frame, the coercion, the
\* derived columns and the return; a KeyError is caught by the except branch
PostProcess(dat) ==
    IF FrameOK(dat)
    THEN /\ fpc' = "done"
         /\ fresult' = StatementRecords(dat)
         /\ UNCHANGED <<attempt, fsleeps, walk>>
    ELSE RetryOrGiveUp

\* data += d.get("data", [])
Accumulate(dat, page) == dat \o page

\* the guard of the function (lines 146-147) and the set-up of the loop
FetchCall(c) ==
    /\ code' = c
    /\ IF c = ""
       THEN /\ fpc' = "done"
            /\ fresult' = EmptyStatements
       ELSE /\ fpc' = "request"
            /\ fresult' = fresult
    /\ UNCHANGED <<attempt, params_key, d_key, data, nreq, fsleeps, sentKey,
                   lastReq, prevRet, clean, keyless, late, served, nserved,
                   all500, ok200, restarted, pageFailed, failAccum, walk>>

\* the first request of an attempt (lines 197-203) with what follows it up to
\* the next request or the return
InitialRequest(resp) ==
    /\ Observe(resp, FALSE)
    /\ sentKey' = params_key
    /\ UNCHANGED <<code, params_key>>
    /\ UNCHANGED cvars
    /\ IF resp.kind = "ok"
       THEN /\ d_key' = resp.key
            /\ data' = resp.data
            /\ IF resp.key # 0
               THEN /\ fpc' = "page"
                    /\ walk' = 1
                    /\ UNCHANGED <<attempt, fsleeps, fresult>>
               ELSE PostProcess(resp.data)
       ELSE /\ UNCHANGED <<d_key, data>>
            /\ RetryOrGiveUp

\* one turn of the pagination loop (lines 206-214) with what follows it
PageRequest(resp) ==
    /\ Observe(resp, TRUE)
    /\ params_key' = d_key
    /\ sentKey' = d_key
    /\ UNCHANGED code
    /\ UNCHANGED cvars
    /\ CASE resp.kind = "ok" ->
              /\ d_key' = resp.key
              /\ data' = Accumulate(data, resp.data)
              /\ IF resp.key # 0
                 THEN /\ fpc' = "page"
                      /\ walk' = walk + 1
                      /\ UNCHANGED <<attempt, fsleeps, fresult>>
                 ELSE PostProcess(Accumulate(data, resp.data))
         [] resp.kind = "status" ->
              /\ UNCHANGED <<d_key, data>>
              /\ PostProcess(data)
         [] OTHER ->
              /\ UNCHANGED <<d_key, data>>
              /\ RetryOrGiveUp

FetchInit ==
    /\ fpc = "idle"
    /\ code = ""
    /\ attempt = 0
    /\ params_key = 0
    /\ d_key = 0
    /\ data = <<>>
    /\ fresult = EmptyStatements
    /\ nreq = 0
    /\ fsleeps = 0
    /\ sentKey = 0
    /\ lastReq = "none"
    /\ prevRet = 0
    /\ clean = TRUE
    /\ keyless = FALSE
    /\ late = FALSE
    /\ served = <<>>
    /\ nserved = 0
    /\ all500 = TRUE
    /\ ok200 = FALSE
    /\ restarted = FALSE
    /\ pageFailed = FALSE
    /\ failAccum = <<>>
    /\ walk = 0

\* a caller calls get_pl_bs_cashflow(c)
CallFetch ==
    /\ fpc = "idle"
    /\ cpc = "idle"
    /\ spc = "idle"
    /\ \E c \in Codes : FetchCall(c)
    /\ UNCHANGED cvars
    /\ UNCHANGED avars

\* the provider answers the first request of an attempt
DoInitialRequest ==
    /\ fpc = "request"
    /\ \E resp \in Responses : InitialRequest(resp)
    /\ UNCHANGED avars

\* the provider answers a page request
DoPageRequest ==
    /\ fpc = "page"
    /\ \E resp \in Responses : PageRequest(resp)
    /\ UNCHANGED avars

-----------------------------------------------------------------------------
(* calculate_valuation_metrics: inputs *)

\* "7203.T"
Ticker7203 == <<"7", "2", "0", "3", ".", "T">>

Tickers == {<<>>, Ticker7203}

\* an annual filing: with Close = 500 its PER is 500 / 100 = 5.0
PlAnnual ==
    [DocType |-> DocFY, CurPerEn |-> 2,
     Sales |-> Num(100), EPS |-> Num(100), NP |-> Num(8)]

\* a later interim filing
PlInterim ==
    [DocType |-> Doc2Q, CurPerEn |-> 3,
     Sales |-> Num(50), EPS |-> Num(3), NP |-> Num(2)]

\* an annual filing in lower case, as old as PlInterim, with NaN earnings
PlLowerNaN ==
    [DocType |-> DocLowerFY, CurPerEn |-> 3,
     Sales |-> Num(60), EPS |-> NaN, NP |-> NaN]

\* the latest annual entry, with no Sales value
PlNoSales ==
    [DocType |-> DocFY, CurPerEn |-> 4,
     Sales |-> RawNull, EPS |-> Num(7), NP |-> Num(7)]

\* an annual filing with a loss per share whose period end is missing and
\* whose NP is None
PlUndated ==
    [DocType |-> DocFY, CurPerEn |-> MissingDate,
     Sales |-> Num(10), EPS |-> Num(0 - 2), NP |-> RawNull]

\* a filing whose period end cannot be parsed
PlBadDate ==
    [DocType |-> DocSemiAnnual, CurPerEn |-> BadDate,
     Sales |-> Num(10), EPS |-> Num(5), NP |-> Num(1)]

PlPool == <<PlAnnual, PlInterim, PlLowerNaN, PlNoSales, PlUndated, PlBadDate>>

BsGood == [CurPerEn |-> 2, TA |-> Num(200), BPS |-> Num(250), Eq |-> Num(80)]

\* a later snapshot with nothing in it: TA = 0, BPS is "" and Eq is "NaN"
BsZero == [CurPerEn |-> 3, TA |-> Num(0), BPS |-> RawEmpty, Eq |-> RawNaNStr]

\* as late as BsZero, with NaN book value and equity
BsNaN == [CurPerEn |-> 3, TA |-> Num(100), BPS |-> NaN, Eq |-> NaN]

\* the latest snapshot, with no TA value and negative equity
BsNoTA == [CurPerEn |-> 4, TA |-> NaN, BPS |-> Num(10), Eq |-> Num(0 - 5)]

BsPool == <<BsGood, BsZero, BsNaN, BsNoTA>>

RECURSIVE IndexLists(_, _)
\* the index sequences of length at most k into a pool of n records
IndexLists(n, k) ==
    IF k = 0 THEN {<<>>}
    ELSE LET shorter == IndexLists(n, k - 1)
         IN  shorter \cup {Append(s, x) : s \in shorter, x \in 1..n}

\* the record lists of at most k records of the pool.  The lists are taken in
\* pool order: the function reads its lists through sort_values alone, and
\* every row order sort_values can produce is drawn in CalcNext.
RecordLists(pool, k) ==
    {[i \in 1..Len(q) |-> pool[q[i]]] :
        q \in {r \in IndexLists(Len(pool), k) :
                  \A i \in 1..(Len(r) - 1) : r[i] <= r[i + 1]}}

\* what one ticker.history(period="1d") with hist["Close"].iloc[-1] can come
\* to: the lookup raises, the history is empty, the history has rows but no
\* Close column, or the last Close is a number or NaN
PriceResponses ==
    {[kind |-> k, close |-> NaN] : k \in {"raise", "empty", "noclose"}}
    \cup {[kind |-> "rows", close |-> c] : c \in {Num(500), NaN}}

-----------------------------------------------------------------------------
(* calculate_valuation_metrics: frames, sorting and selection *)

\* the columns of pd.DataFrame(recs)
ColumnsOf(recs) == UNION {DOMAIN recs[i] : i \in 1..Len(recs)}

IsString(x) == x.t \in {"text", "empty", "nanstr"}

\* the cell of row i in column c of pd.DataFrame(recs): a missing key is NaN,
\* and None becomes NaN in a column that holds numbers and no strings
FrameCell(recs, i, c) ==
    LET r == recs[i]
        others == {j \in 1..Len(recs) : c \notin DOMAIN recs[j]
                                         \/ recs[j][c].t # "null"}
        strings == {j \in 1..Len(recs) : c \in DOMAIN recs[j]
                                          /\ IsString(recs[j][c])}
    IN  IF c \notin DOMAIN r THEN NaN
        ELSE IF r[c].t = "null" /\ others # {} /\ strings = {} THEN NaN
        ELSE r[c]

\* row.get(c): None when the frame has no column c
RowGet(recs, i, c) ==
    IF c \in ColumnsOf(recs) THEN FrameCell(recs, i, c) ELSE RawNull

\* pandas' isna: NaN and None
IsNA(x) == x.t \in {"nan", "null"}

\* pd.to_datetime raises ValueError for a string that is no date
DatesParse(recs) ==
    \A i \in 1..Len(recs) :
        "CurPerEn" \in DOMAIN recs[i] => recs[i]["CurPerEn"] # BadDate

\* the parsed period end of row i; MissingDate stands for NaT
PeriodEnd(recs, i) == DateCell(recs[i], "CurPerEn")

\* sort_values("CurPerEn") is ascending with NaT last: a before b
DateBefore(a, b) ==
    IF a = MissingDate THEN FALSE
    ELSE IF b = MissingDate THEN TRUE
    ELSE a < b

\* the row orders sort_values can produce (the sort is not stable: rows
\* with equal period ends come out in any order)
SortOrders(recs) ==
    LET n == Len(recs)
    IN  {p \in [1..n -> 1..n] :
            /\ \A i, j \in 1..n : i # j => p[i] # p[j]
            /\ \A i, j \in 1..n :
                  i < j => ~DateBefore(PeriodEnd(recs, p[j]), PeriodEnd(recs, p[i]))}

\* the positions of order that are in keep, in order (a boolean mask)
KeepRows(order, keep) == SelectSeq(order, LAMBDA i : i \in keep)

\* df.dropna(subset=[c]) on the rows in order
DropNa(recs, order, c) ==
    KeepRows(order, {i \in 1..Len(recs) : ~IsNA(FrameCell(recs, i, c))})

UpperCase == <<"A", "B", "C", "D", "E", "F", "G", "H", "I", "J", "K", "L", "M",
               "N", "O", "P", "Q", "R", "S", "T", "U", "V", "W", "X", "Y", "Z">>
LowerCase == <<"a", "b", "c", "d", "e", "f", "g", "h", "i", "j", "k", "l", "m",
               "n", "o", "p", "q", "r", "s", "t", "u", "v", "w", "x", "y", "z">>

LowerChar(c) ==
    IF \E k \in 1..Len(UpperCase) : UpperCase[k] = c
    THEN LowerCase[CHOOSE k \in 1..Len(UpperCase) : UpperCase[k] = c]
    ELSE c

Lower(str) == [k \in 1..Len(str) |-> LowerChar(str[k])]

\* pat occurs in str
Contains(str, pat) ==
    \E k \in 0..(Len(str) - Len(pat)) :
        \A m \in 1..Len(pat) : str[k + m] = pat[m]

\* .astype(str) on a DocType cell: a missing cell reads "nan"
AsStr(doc) == IF doc = MissingDoc THEN <<"n", "a", "n">> ELSE doc

\* .str.contains("FY|Annual", case=False, regex=True)
IsAnnualDocType(doc) ==
    \/ Contains(Lower(AsStr(doc)), <<"f", "y">>)
    \/ Contains(Lower(AsStr(doc)), <<"a", "n", "n", "u", "a", "l">>)

\* safe_float (lines 266-270)
safe_float(val) ==
    IF val.t \in {"null", "empty", "nanstr"} THEN Num(0)
    ELSE IF val.t = "text" THEN Num(0)
    ELSE val

\* the frames cannot be built, parsed or filtered (lines 278-298): a column
\* that is read is in no record (KeyError) or a date is no date (ValueError)
FramesRaise(pl, bs) ==
    \/ "CurPerEn" \notin ColumnsOf(pl)
    \/ "CurPerEn" \notin ColumnsOf(bs)
    \/ ~DatesParse(pl)
    \/ ~DatesParse(bs)
    \/ "Sales" \notin ColumnsOf(pl)
    \/ "TA" \notin ColumnsOf(bs)
    \/ "DocType" \notin ColumnsOf(pl)

\* pl_df after sort_values (in the order po) and dropna(subset=["Sales"])
PlKept(pl, po) == DropNa(pl, po, "Sales")

\* bs_df after sort_values (in the order bo) and dropna(subset=["TA"])
BsKept(bs, bo) == DropNa(bs, bo, "TA")

\* fy_rows_pl (lines 294-298)
FyRows(pl, kept) ==
    KeepRows(kept, {i \in 1..Len(pl) : IsAnnualDocType(DocCell(pl[i]))})

\* seq.iloc[-1]
Last(seq) == seq[Len(seq)]

\* lines 299-304: the index of the selected PL row; kept is not empty
SelectPl(pl, kept) ==
    IF FyRows(pl, kept) # <<>> THEN Last(FyRows(pl, kept)) ELSE Last(kept)

\* a row of pl_df as the function reads it
PlRow(pl, i) ==
    [DocType |-> DocCell(pl[i]), CurPerEn |-> PeriodEnd(pl, i),
     Sales |-> FrameCell(pl, i, "Sales"),
     EPS |-> RowGet(pl, i, "EPS"), NP |-> RowGet(pl, i, "NP")]

\* a row of bs_df as the function reads it
BsRow(bs, i) ==
    [CurPerEn |-> PeriodEnd(bs, i), TA |-> FrameCell(bs, i, "TA"),
     BPS |-> RowGet(bs, i, "BPS"), Eq |-> RowGet(bs, i, "Eq")]

NoPlRow == [DocType |-> MissingDoc, CurPerEn |-> MissingDate,
            Sales |-> Unbound, EPS |-> Unbound, NP |-> Unbound]

NoBsRow == [CurPerEn |-> MissingDate, TA |-> Unbound, BPS |-> Unbound,
            Eq |-> Unbound]

-----------------------------------------------------------------------------
(* calculate_valuation_metrics: the ratios *)

\* Python's a / b on floats: ZeroDivisionError when b is 0
PyDiv(a, b) ==
    IF a.t = "zde" \/ b.t = "zde" THEN ZeroDiv
    ELSE IF IsNum(b) /\ b.n = 0 THEN ZeroDiv
    ELSE IF IsNum(a) /\ IsNum(b) THEN Rat(a.n * b.d, a.d * b.n)
    ELSE NaN

\* x * 100
Times100(x) == IF x.t = "zde" THEN ZeroDiv ELSE FMul(x, Num(100))

RECURSIVE Pow10(_)
Pow10(k) == IF k = 0 THEN 1 ELSE 10 * Pow10(k - 1)

\* round(x, k): to k decimals, a tie to the even neighbour; NaN stays NaN.
\* (Python rounds the binary float; the model rounds the exact quotient.)
Round(x, k) ==
    IF x.t # "num" THEN x
    ELSE LET scaled == x.n * Pow10(k)
             low == scaled \div x.d
             rest == scaled % x.d
             up == \/ 2 * rest > x.d
                   \/ 2 * rest = x.d /\ low % 2 = 1
         IN  Rat(IF up THEN low + 1 ELSE low, Pow10(k))

\* EquityRatioOf guarded by ta >= 0 instead of ta > 0
EquityRatioOf_GuardGe(equity, ta) ==
    IF Gt0(ta) \/ ta = Num(0)
    THEN Round(Times100(PyDiv(equity, ta)), 1)
    ELSE PyNone

\* lines 351-353
EquityRatioOf(equity, ta) ==
    IF Gt0(ta) THEN Round(Times100(PyDiv(equity, ta)), 1) ELSE PyNone

\* line 354; current_price is a numpy float
PbrOf(price, bookValue) ==
    IF Gt0(bookValue) THEN Round(NpDiv(price, bookValue), 2) ELSE PyNone

\* line 358
PerOf(price, earnings) ==
    IF Gt0(earnings) THEN Round(NpDiv(price, earnings), 2) ELSE PyNone

\* lines 359-361
RoeOf(profit, equity) ==
    IF Gt0(equity) THEN Round(Times100(PyDiv(profit, equity)), 2) ELSE PyNone

\* line 362
RoaOf(profit, ta) ==
    IF Gt0(ta) THEN Round(Times100(PyDiv(profit, ta)), 2) ELSE PyNone

\* yf_code.split(".")[0]
SplitDot(str) ==
    LET dots == {k \in 1..Len(str) : str[k] = "."}
        first == IF dots = {} THEN Len(str) + 1
                 ELSE CHOOSE k \in dots : \A m \in dots : k <= m
    IN  SubSeq(str, 1, first - 1)

\* Metrics without the is_annual_data branch
Metrics_IgnoresAnnual(yf, price, annual, earnings, profit, bookValue, equity, ta) ==
    [Code |-> SplitDot(yf),
     Price |-> price,
     EquityRatio |-> EquityRatioOf(equity, ta),
     PBR |-> PbrOf(price, bookValue),
     PER |-> PerOf(price, earnings),
     ROE |-> RoeOf(profit, equity),
     ROA |-> RoaOf(profit, ta)]

\* lines 348-367
Metrics(yf, price, annual, earnings, profit, bookValue, equity, ta) ==
    [Code |-> SplitDot(yf),
     Price |-> price,
     EquityRatio |-> EquityRatioOf(equity, ta),
     PBR |-> PbrOf(price, bookValue),
     PER |-> IF annual THEN PerOf(price, earnings) ELSE PyNone,
     ROE |-> IF annual THEN RoeOf(profit, equity) ELSE PyNone,
     ROA |-> IF annual THEN RoaOf(profit, ta) ELSE PyNone]

RatioFields == {"EquityRatio", "PBR", "PER", "ROE", "ROA"}

NoMetrics ==
    [Code |-> <<>>, Price |-> Unbound, EquityRatio |-> Unbound, PBR |-> Unbound,
     PER |-> Unbound, ROE |-> Unbound, ROA |-> Unbound]

\* what the call comes to: "pending", "empty" ({} was returned), "metrics"
\* (m was returned) or "raised" (an exception left the function)
Pending == [kind |-> "pending", exc |-> "", m |-> NoMetrics]
ReturnEmpty == [kind |-> "empty", exc |-> "", m |-> NoMetrics]
Raised(e) == [kind |-> "raised", exc |-> e, m |-> NoMetrics]

\* lines 343-369 once the price loop has ended with the history h and the
\* price variable price
AfterLoop(h, price) ==
    IF h = "empty" THEN ReturnEmpty
    ELSE IF price = Unbound THEN Raised("NameError")
    ELSE LET m == Metrics(yf_code, price, is_annual_data, eps, np_val, bps,
                          equity_latest, ta_latest)
         IN  IF \E f \in RatioFields : m[f].t = "zde"
             THEN Raised("ZeroDivisionError")
             ELSE [kind |-> "metrics", exc |-> "", m |-> m]

-----------------------------------------------------------------------------
(* calculate_valuation_metrics: the call *)

\* Invalid without the check of the ticker
Invalid_NoTickerCheck(yf, pl, bs) == pl = <<>> \/ bs = <<>>

\* line 273: not yf_code or not pl_data or not bs_data
Invalid(yf, pl, bs) == yf = <<>> \/ pl = <<>> \/ bs = <<>>

\* FreshHist when hist outlives the call
FreshHist_Kept == hist

\* hist = pd.DataFrame() (line 322)
FreshHist == "empty"

\* the locals of the selection and the extraction when the call returns
\* before line 299 has assigned them
NothingSelected ==
    /\ latest_pl_annual' = NoPlRow
    /\ latest_bs_snapshot' = NoBsRow
    /\ is_annual_data' = FALSE
    /\ eps' = Unbound
    /\ np_val' = Unbound
    /\ bps' = Unbound
    /\ equity_latest' = Unbound
    /\ ta_latest' = Unbound

\* lines 272-318: validation, the frames, the selection and the extraction,
\* for the row orders po and bo that sort_values produced
CalcCall(yf, pl, bs, po, bo) ==
    /\ yf_code' = yf
    /\ pl_data' = pl
    /\ bs_data' = bs
    /\ pl_order' = po
    /\ bs_order' = bo
    /\ hist' = FreshHist
    /\ current_price' = Unbound
    /\ cattempt' = 0
    /\ csleeps' = 0
    /\ lookups' = 0
    /\ priceLog' = <<>>
    /\ IF Invalid(yf, pl, bs)
       THEN /\ cpc' = "done"
            /\ cresult' = ReturnEmpty
            /\ NothingSelected
       ELSE IF \/ FramesRaise(pl, bs)
               \/ PlKept(pl, po) = <<>>
               \/ BsKept(bs, bo) = <<>>
       THEN \* ValueError, KeyError or IndexError: logged, return {}
            /\ cpc' = "done"
            /\ cresult' = ReturnEmpty
            /\ NothingSelected
       ELSE LET kept == PlKept(pl, po)
                prow == PlRow(pl, SelectPl(pl, kept))
                brow == BsRow(bs, Last(BsKept(bs, bo)))
            IN  /\ latest_pl_annual' = prow
                /\ is_annual_data' = (FyRows(pl, kept) # <<>>)
                /\ latest_bs_snapshot' = brow
                /\ eps' = safe_float(prow.EPS)
                /\ np_val' = safe_float(prow.NP)
                /\ bps' = safe_float(brow.BPS)
                /\ equity_latest' = safe_float(brow.Eq)
                /\ ta_latest' = safe_float(brow.TA)
                /\ cpc' = "price"
                /\ cresult' = Pending

\* LoopEnds without the break of lines 340-341
LoopEnds_NoBreak(h, att) == att + 1 >= max_retries

\* the for loop of line 323 ends after the turn att: the break of lines
\* 340-341, or range(max_retries) is exhausted
LoopEnds(h, att) == h # "empty" \/ att + 1 >= max_retries

\* one turn of the price loop (lines 323-341) and, when the loop ends with
\* it, the rest of the function
PriceLookup(resp) ==
    /\ lookups' = lookups + 1
    /\ priceLog' = Append(priceLog, resp)
    /\ LET h == IF resp.kind = "raise" THEN hist ELSE resp.kind
           price == IF resp.kind = "rows" THEN resp.close ELSE current_price
           slept == CASE resp.kind = "rows" -> 0
                      [] resp.kind = "empty" -> 2
                      [] OTHER -> 1
       IN  /\ hist' = h
           /\ current_price' = price
           /\ csleeps' = csleeps + slept
           /\ IF LoopEnds(h, cattempt)
              THEN /\ cpc' = "done"
                   /\ cattempt' = cattempt
                   /\ cresult' = AfterLoop(h, price)
              ELSE /\ cpc' = "price"
                   /\ cattempt' = cattempt + 1
                   /\ cresult' = cresult
    /\ UNCHANGED <<yf_code, pl_data, bs_data, latest_pl_annual,
                   latest_bs_snapshot, is_annual_data, eps, np_val, bps,
                   equity_latest, ta_latest, pl_order, bs_order>>

\* what is kept of a call for the comparison with a repeated call: the
\* arguments as they were passed, the price answers and the outcome
NoFirst ==
    [yf |-> <<>>, pl |-> <<>>, bs |-> <<>>, log |-> <<>>, result |-> Pending]

CalcInit ==
    /\ cpc = "idle"
    /\ yf_code = <<>>
    /\ pl_data = <<>>
    /\ bs_data = <<>>
    /\ latest_pl_annual = NoPlRow
    /\ latest_bs_snapshot = NoBsRow
    /\ is_annual_data = FALSE
    /\ eps = Unbound
    /\ np_val = Unbound
    /\ bps = Unbound
    /\ equity_latest = Unbound
    /\ ta_latest = Unbound
    /\ hist = "empty"
    /\ current_price = Unbound
    /\ cattempt = 0
    /\ csleeps = 0
    /\ lookups = 0
    /\ cresult = Pending
    /\ priceLog = <<>>
    /\ pl_order = <<>>
    /\ bs_order = <<>>
    /\ ncall = 1
    /\ firstCall = NoFirst

\* a caller calls calculate_valuation_metrics(yf, pl, bs)
CallCalc ==
    /\ cpc = "idle"
    /\ fpc = "idle"
    /\ spc = "idle"
    /\ \E yf \in Tickers, pl \in RecordLists(PlPool, MaxPL),
          bs \in RecordLists(BsPool, MaxBS) :
          \E po \in SortOrders(pl), bo \in SortOrders(bs) :
              /\ CalcCall(yf, pl, bs, po, bo)
              /\ firstCall' = [NoFirst EXCEPT !.yf = yf, !.pl = pl, !.bs = bs]
    /\ UNCHANGED ncall
    /\ UNCHANGED fvars
    /\ UNCHANGED avars

\* the price provider answers a lookup
DoPriceLookup ==
    /\ cpc = "price"
    /\ ncall = 1
    /\ \E resp \in PriceResponses : PriceLookup(resp)
    /\ UNCHANGED <<ncall, firstCall>>
    /\ UNCHANGED fvars
    /\ UNCHANGED avars

\* the caller repeats the call with the same arguments; sort_values is a
\* function of the frame, so the rows come in the same order again
CallCalcAgain ==
    /\ cpc = "done"
    /\ ncall = 1
    /\ spc = "idle"
    /\ Len(pl_data) <= MaxRepeat
    /\ Len(bs_data) <= MaxRepeat
    /\ ncall' = 2
    /\ firstCall' = [firstCall EXCEPT !.log = priceLog, !.result = cresult]
    /\ CalcCall(yf_code, pl_data, bs_data, pl_order, bs_order)
    /\ UNCHANGED fvars
    /\ UNCHANGED avars

\* the price provider gives the repeated call the answers it gave the first
ReplayPriceLookup ==
    /\ cpc = "price"
    /\ ncall = 2
    /\ lookups < Len(firstCall.log)
    /\ PriceLookup(firstCall.log[lookups + 1])
    /\ UNCHANGED <<ncall, firstCall>>
    /\ UNCHANGED fvars
    /\ UNCHANGED avars

-----------------------------------------------------------------------------
(* The web application: the login gate and the search callback *)

\* os.environ.get("DASH_PASSWORD") (login.py line 11)
CORRECT_PASSWORD == "secret"

\* what a user can type into password-input
Passwords == {"", "guess", CORRECT_PASSWORD}

\* the pathnames a browser can ask for
Paths == {"/", "/dashboard"}

\* the number of parameters of gemini_analysis (utils.py lines 638-644) and the
\* number of arguments execute_search passes to it (dashboard.py lines 154-156)
GeminiParams == 5
GeminiArgs == 6

\* the rows df[df["company_name"].isin(selected_companies)] can have
Selections == {<<>>, <<1>>, <<1, 2>>}

\* row["yfinance_ticker"]
yfinance_ticker(row) == Ticker7203

\* the characters of a code as the string get_pl_bs_cashflow is called with
CodeString(chars) == IF chars = <<>> THEN "" ELSE "7203"

\* what execute_search comes to: "pending", "text" (a message was returned),
\* "blocks" (html.Div(company_blocks) was returned) or "raised"
SearchPending == [kind |-> "pending", exc |-> ""]
SearchText == [kind |-> "text", exc |-> ""]
SearchBlocks == [kind |-> "blocks", exc |-> ""]
SearchRaised(e) == [kind |-> "raised", exc |-> e]

AppInit ==
    /\ pathname = "none"
    /\ pending = FALSE
    /\ page_content = "none"
    /\ login_alert = ""
    /\ verified = FALSE
    /\ spc = "idle"
    /\ rows = <<>>
    /\ irow = 0
    /\ company_blocks = <<>>
    /\ sresult = SearchPending

\* the browser loads the application at a path, or the user changes the URL
Navigate ==
    /\ spc = "idle"
    /\ fpc = "idle"
    /\ cpc = "idle"
    /\ \E p \in Paths : pathname' = p
    /\ pending' = TRUE
    /\ UNCHANGED <<page_content, login_alert, verified, spc, rows, irow,
                   company_blocks, sresult>>
    /\ UNCHANGED fvars
    /\ UNCHANGED cvars

\* display_page (main.py lines 36-40), called for a new pathname
display_page ==
    /\ pending
    /\ pending' = FALSE
    /\ page_content' = (IF pathname = "/dashboard" THEN "dashboard" ELSE "login")
    /\ login_alert' = ""
    /\ UNCHANGED <<pathname, verified, spc, rows, irow, company_blocks, sresult>>
    /\ UNCHANGED fvars
    /\ UNCHANGED cvars

\* verify_password (login.py lines 51-65) for a submitted password
verify_password ==
    /\ page_content = "login"
    /\ ~pending
    /\ \E password \in Passwords :
          IF password = ""
          THEN /\ login_alert' = "Please enter a password."
               /\ UNCHANGED <<pathname, pending, verified>>
          ELSE IF password = CORRECT_PASSWORD
          THEN /\ pathname' = "/dashboard"
               /\ pending' = TRUE
               /\ login_alert' = ""
               /\ verified' = TRUE
          ELSE /\ login_alert' = "Incorrect Password. Please try again."
               /\ UNCHANGED <<pathname, pending, verified>>
    /\ UNCHANGED <<page_content, spc, rows, irow, company_blocks, sresult>>
    /\ UNCHANGED fvars
    /\ UNCHANGED cvars

\* execute_search up to its for loop (dashboard.py lines 86-99), for a click
\* count, a selection of types and the rows of the selected companies
execute_search ==
    /\ page_content = "dashboard"
    /\ ~pending
    /\ spc = "idle"
    /\ \E n_clicks \in {0, 1}, selected_types \in BOOLEAN, sel \in Selections :
          IF n_clicks = 0 \/ (~selected_types /\ sel = <<>>)
          THEN /\ spc' = "done"
               /\ sresult' = SearchText
               /\ UNCHANGED <<rows, irow>>
          ELSE /\ spc' = "loop"
               /\ sresult' = sresult
               /\ rows' = sel
               /\ irow' = 1
    /\ company_blocks' = <<>>
    /\ UNCHANGED <<pathname, pending, page_content, login_alert, verified>>
    /\ UNCHANGED fvars
    /\ UNCHANGED cvars

\* the for loop takes the next row and calls get_pl_bs_cashflow (lines
\* 101-109), or the rows are exhausted and the blocks are returned (line 223)
NextCompany ==
    /\ spc = "loop"
    /\ IF irow > Len(rows)
       THEN /\ spc' = "done"
            /\ sresult' = SearchBlocks
            /\ UNCHANGED fvars
       ELSE /\ spc' = "fetch"
            /\ sresult' = sresult
            /\ FetchCall(CodeString(SplitDot(yfinance_ticker(rows[irow]))))
    /\ UNCHANGED <<pathname, pending, page_content, login_alert, verified,
                   rows, irow, company_blocks>>
    /\ UNCHANGED cvars

\* get_pl_bs_cashflow has returned: its locals and its history are gone.
\* fresult is what it returned; data stays as the record of which provider
\* records the returned records were made from
ForgetFetch ==
    /\ code' = ""
    /\ attempt' = 0
    /\ params_key' = 0
    /\ d_key' = 0
    /\ nreq' = 0
    /\ fsleeps' = 0
    /\ sentKey' = 0
    /\ lastReq' = "none"
    /\ prevRet' = 0
    /\ clean' = TRUE
    /\ keyless' = FALSE
    /\ late' = FALSE
    /\ served' = <<>>
    /\ nserved' = 0
    /\ all500' = TRUE
    /\ ok200' = FALSE
    /\ restarted' = FALSE
    /\ pageFailed' = FALSE
    /\ failAccum' = <<>>
    /\ walk' = 0

\* lines 110-112: calculate_valuation_metrics is called when pl_data and
\* bs_data are not empty
ComputeMetrics ==
    /\ spc = "fetch"
    /\ fpc = "done"
    /\ IF fresult.pl # <<>> /\ fresult.bs # <<>>
       THEN /\ spc' = "calc"
            /\ \E po \in SortOrders(fresult.pl), bo \in SortOrders(fresult.bs) :
                  CalcCall(yfinance_ticker(rows[irow]), fresult.pl, fresult.bs,
                           po, bo)
            /\ UNCHANGED <<ncall, firstCall>>
       ELSE /\ spc' = "render"
            /\ UNCHANGED cvars
    /\ ForgetFetch
    /\ UNCHANGED <<fpc, data, fresult>>
    /\ UNCHANGED <<pathname, pending, page_content, login_alert, verified,
                   rows, irow, company_blocks, sresult>>

\* the locals of the two calls are gone when the loop turns to the next row
ForgetCalls ==
    /\ ForgetFetch
    /\ fpc' = "idle"
    /\ data' = <<>>
    /\ fresult' = EmptyStatements
    /\ cpc' = "idle"
    /\ yf_code' = <<>>
    /\ pl_data' = <<>>
    /\ bs_data' = <<>>
    /\ NothingSelected
    /\ hist' = FreshHist
    /\ current_price' = Unbound
    /\ cattempt' = 0
    /\ csleeps' = 0
    /\ lookups' = 0
    /\ cresult' = Pending
    /\ priceLog' = <<>>
    /\ pl_order' = <<>>
    /\ bs_order' = <<>>
    /\ UNCHANGED <<ncall, firstCall>>

\* the rest of the loop body (lines 114-220): the summary record, the plots,
\* the call of gemini_analysis and the block of the company.  An exception
\* of calculate_valuation_metrics leaves execute_search at line 112; a call
\* with more arguments than parameters raises TypeError
RenderCompany ==
    /\ \/ spc = "calc" /\ cpc = "done"
       \/ spc = "render"
    /\ IF spc = "calc" /\ cresult.kind = "raised"
       THEN /\ spc' = "done"
            /\ sresult' = SearchRaised(cresult.exc)
            /\ UNCHANGED <<irow, company_blocks>>
            /\ UNCHANGED fvars
            /\ UNCHANGED cvars
       ELSE IF GeminiArgs # GeminiParams
       THEN /\ spc' = "done"
            /\ sresult' = SearchRaised("TypeError")
            /\ UNCHANGED <<irow, company_blocks>>
            /\ UNCHANGED fvars
            /\ UNCHANGED cvars
       ELSE /\ spc' = "loop"
            /\ sresult' = sresult
            /\ company_blocks' = Append(company_blocks, rows[irow])
            /\ irow' = irow + 1
            /\ ForgetCalls
    /\ UNCHANGED <<pathname, pending, page_content, login_alert, verified, rows>>

-----------------------------------------------------------------------------
(* Specifications *)

Init == FetchInit /\ CalcInit /\ AppInit

\* one call of one of the two entry points, and a repetition of the call of
\* calculate_valuation_metrics
Next ==
    \/ CallFetch
    \/ DoInitialRequest
    \/ DoPageRequest
    \/ CallCalc
    \/ DoPriceLookup
    \/ CallCalcAgain
    \/ ReplayPriceLookup

Spec == Init /\ [][Next]_vars

\* the web application: page loads, logins and one search
AppNext ==
    \/ Navigate
    \/ display_page
    \/ verify_password
    \/ execute_search
    \/ NextCompany
    \/ DoInitialRequest
    \/ DoPageRequest
    \/ ComputeMetrics
    \/ DoPriceLookup
    \/ RenderCompany

AppSpec == Init /\ [][AppNext]_vars


-----------------------------------------------------------------------------
(* Claims about get_pl_bs_cashflow *)

\* C1: for a non-empty code, if every response is HTTP 200 with pages P1..Pn
\* where every page except Pn carries a pagination_key, then exactly n
\* requests are made, request k+1 carries the key returned by page k, no
\* request is made after the first response without a key, and the returned
\* sequences are the records of P1.data + ... + Pn.data in that order.
C1_PaginationWalk ==
    /\ (clean /\ lastReq = "page") => (prevRet # 0 /\ sentKey = prevRet)
    /\ (clean /\ code # "") => ~late
    /\ (clean /\ code # "" /\ fpc = "done") =>
          /\ nreq = nserved
          /\ fresult = StatementRecords(served)

\* C2: if every request of a call returns a non-200 status, the call makes
\* exactly 3 request attempts and then returns ([], [], []).
C2_AllNon200ThreeAttempts ==
    (all500 /\ code # "") =>
        /\ nreq <= 3
        /\ fpc = "done" <=> nreq = 3
        /\ fpc = "done" => fresult = EmptyStatements

\* a call that got three non-200 responses and has returned
C2_Witness ==
    /\ fpc = "done"
    /\ code # ""
    /\ all500
    /\ nreq = 3
    /\ fsleeps = 3

\* C3: when a page request after the first one fails (non-200 status, or a
\* raised network/parse exception), pagination ends and the call returns the
\* records of all pages accumulated before the failure.
C3_FailedPageKeepsAccumulated ==
    (pageFailed /\ failAccum # <<>>) =>
        /\ fpc = "done"
        /\ fresult = StatementRecords(failAccum)

\* C4: once the initial request of an attempt has returned HTTP 200, no
\* further attempt of the retry loop is started.
C4_NoAttemptAfter200 == ~restarted

\* the provider's value of column c in record r is absent, empty or no number
BadRaw(r, c) == c \notin DOMAIN r \/ r[c].t \in {"empty", "text", "null"}

\* C6: every numeric field of every record returned with HTTP 200 whose value
\* is absent, empty or non-numeric is exactly 0.0 in the output, also when the
\* field is absent from every record: the fetch does not fail over it.
C6_BadValuesBecomeZero ==
    (clean /\ code # "" /\ fpc = "done" /\ served # <<>>) =>
        /\ Len(fresult.pl) = Len(served)
        /\ Len(fresult.bs) = Len(served)
        /\ Len(fresult.cf) = Len(served)
        /\ \A i \in 1..Len(served) : \A c \in numeric_cols :
              BadRaw(RecordPool[served[i]], c) =>
                  /\ c \in pl_cols => fresult.pl[i][c] = Num(0)
                  /\ c \in bl_cols => fresult.bs[i][c] = Num(0)
                  /\ c \in cf_cols => fresult.cf[i][c] = Num(0)

-----------------------------------------------------------------------------
(* Claims about both entry points *)

\* C5: validation failures short-circuit with the empty result and no network
\* call: an empty code returns ([], [], []) without any HTTP request, and an
\* empty ticker, PL list or BS list returns {} without any price lookup and
\* without any backoff sleep.
C5_ValidationShortCircuits ==
    /\ (fpc # "idle" /\ code = "") =>
          /\ fpc = "done"
          /\ fresult = EmptyStatements
          /\ nreq = 0
          /\ fsleeps = 0
    /\ (cpc # "idle" /\ (yf_code = <<>> \/ pl_data = <<>> \/ bs_data = <<>>)) =>
          /\ cpc = "done"
          /\ cresult.kind = "empty"
          /\ lookups = 0
          /\ csleeps = 0

\* a call with an empty ticker and valid statement lists has returned {}
C5_Witness ==
    /\ cpc = "done"
    /\ yf_code = <<>>
    /\ pl_data # <<>>
    /\ bs_data # <<>>
    /\ cresult.kind = "empty"
    /\ lookups = 0

-----------------------------------------------------------------------------
(* Claims about calculate_valuation_metrics *)

\* the selection of lines 299-306 has been made
Selected == cpc # "idle" /\ latest_pl_annual # NoPlRow

\* row is a row of recs among the indices S, and no row of S has a later
\* period end
IsLatestOf(row, rowOf, recs, S) ==
    /\ \E i \in S : rowOf[i] = row
    /\ \A j \in S :
          PeriodEnd(recs, j) # MissingDate =>
              /\ row.CurPerEn # MissingDate
              /\ PeriodEnd(recs, j) <= row.CurPerEn

\* the PL records whose Sales value is not missing
PlRemaining == {i \in 1..Len(pl_data) : ~IsNA(FrameCell(pl_data, i, "Sales"))}

\* those of them whose DocType contains FY or Annual
PlMatching == {i \in PlRemaining : IsAnnualDocType(DocCell(pl_data[i]))}

\* the BS records whose TA value is not missing
BsRemaining == {i \in 1..Len(bs_data) : ~IsNA(FrameCell(bs_data, i, "TA"))}

\* the rows of the two frames as the selection reads them
PlRows == [i \in 1..Len(pl_data) |-> PlRow(pl_data, i)]

BsRows == [i \in 1..Len(bs_data) |-> BsRow(bs_data, i)]

SelectionRule ==
    /\ IF PlMatching # {}
       THEN /\ is_annual_data
            /\ IsLatestOf(latest_pl_annual, PlRows, pl_data, PlMatching)
       ELSE /\ ~is_annual_data
            /\ IsLatestOf(latest_pl_annual, PlRows, pl_data, PlRemaining)
    /\ IsLatestOf(latest_bs_snapshot, BsRows, bs_data, BsRemaining)

\* C7: records with a missing Sales value are dropped; if a remaining record
\* has a DocType containing FY or Annual (any case), the selected record is
\* the matching one with the latest period end and the selection is annual;
\* otherwise it is the remaining one with the latest period end and the
\* selection is not annual.  The BS record is the one with the latest period
\* end among the records with a TA value.
C7_SelectsLatest == Selected => SelectionRule

\* every record of both lists has a period end
AllDated ==
    /\ \A i \in 1..Len(pl_data) : PeriodEnd(pl_data, i) # MissingDate
    /\ \A i \in 1..Len(bs_data) : PeriodEnd(bs_data, i) # MissingDate

\* The selection rule of C7 on lists in which every record has a period end
SelectionOnDatedRecords == (Selected /\ AllDated) => SelectionRule

\* C8: when no PL record matches the annual pattern and a price is obtained,
\* PER, ROE and ROA are all null whatever the EPS and NP of the selected
\* record are, while PBR and EquityRatio are computed from the latest BS
\* record by the same rules as in the annual case.
C8_InterimNullsEarningsRatios ==
    (cresult.kind = "metrics" /\ PlMatching = {}) =>
        /\ cresult.m.PER = PyNone
        /\ cresult.m.ROE = PyNone
        /\ cresult.m.ROA = PyNone
        /\ cresult.m.PBR =
              (IF Gt0(safe_float(latest_bs_snapshot.BPS))
               THEN Round(NpDiv(current_price, safe_float(latest_bs_snapshot.BPS)), 2)
               ELSE PyNone)
        /\ cresult.m.EquityRatio =
              (IF Gt0(safe_float(latest_bs_snapshot.TA))
               THEN Round(FMul(PyDiv(safe_float(latest_bs_snapshot.Eq),
                                     safe_float(latest_bs_snapshot.TA)),
                               Num(100)), 1)
               ELSE PyNone)

\* metrics of an interim selection with positive EPS and NP, and a number
\* for PBR and for EquityRatio
C8_Witness ==
    /\ cresult.kind = "metrics"
    /\ PlMatching = {}
    /\ Gt0(eps)
    /\ Gt0(np_val)
    /\ IsNum(cresult.m.PBR)
    /\ IsNum(cresult.m.EquityRatio)

\* C9 as stated: no division by zero is executed; EquityRatio is null iff
\* TA <= 0, PBR is null iff BPS <= 0, and in the annual case PER is null iff
\* EPS <= 0, ROE is null iff Eq <= 0 and ROA is null iff TA <= 0.
C9_NullIffNonPositive ==
    /\ cresult.exc # "ZeroDivisionError"
    /\ cresult.kind = "metrics" =>
          /\ cresult.m.EquityRatio = PyNone <=> Le0(ta_latest)
          /\ cresult.m.PBR = PyNone <=> Le0(bps)
          /\ is_annual_data =>
                /\ cresult.m.PER = PyNone <=> Le0(eps)
                /\ cresult.m.ROE = PyNone <=> Le0(equity_latest)
                /\ cresult.m.ROA = PyNone <=> Le0(ta_latest)

\* C9 as amended: no division by zero is executed, and each ratio is null iff
\* its denominator is not greater than 0, that is <= 0 or NaN.
C9_NullIffNotPositive ==
    /\ cresult.exc # "ZeroDivisionError"
    /\ cresult.kind = "metrics" =>
          /\ cresult.m.EquityRatio = PyNone <=> ~Gt0(ta_latest)
          /\ cresult.m.PBR = PyNone <=> ~Gt0(bps)
          /\ is_annual_data =>
                /\ cresult.m.PER = PyNone <=> ~Gt0(eps)
                /\ cresult.m.ROE = PyNone <=> ~Gt0(equity_latest)
                /\ cresult.m.ROA = PyNone <=> ~Gt0(ta_latest)

\* metrics of an annual selection over a snapshot with TA = 0 and BPS = 0
C9_Witness ==
    /\ cresult.kind = "metrics"
    /\ is_annual_data
    /\ ta_latest = Num(0)
    /\ bps = Num(0)
    /\ cresult.m.EquityRatio = PyNone
    /\ cresult.m.PBR = PyNone
    /\ cresult.m.ROA = PyNone

\* C10: for every non-empty result each of EquityRatio, PBR, PER, ROE and ROA
\* is a finite number or null, never NaN, also when a value of the selected
\* records or the latest Close is NaN.
C10_RatiosFiniteOrNull ==
    cresult.kind = "metrics" =>
        \A f \in RatioFields : cresult.m[f].t \in {"num", "none"}

-----------------------------------------------------------------------------
(* Claims about the price loop, the exceptions and the derived columns *)

\* the price lookup k of the call came back without a history: it raised or
\* the history was empty
LookupFailed(k) == priceLog[k].kind \in {"raise", "empty"}

\* C11: the price loop makes lookups until the first one that returns a
\* non-empty history and at most 3 in total: a non-empty history on lookup k
\* means exactly k lookups are made, and if all 3 lookups raise or return an
\* empty history the result is the empty metrics {}.
C11_LookupsUntilFirstHistory ==
    /\ lookups = Len(priceLog)
    /\ lookups <= 3
    /\ \A k \in 1..Len(priceLog) :
          ~LookupFailed(k) => (k = Len(priceLog) /\ cpc = "done")
    /\ (priceLog # <<>> /\ \A k \in 1..Len(priceLog) : LookupFailed(k)) =>
          IF Len(priceLog) = 3
          THEN cpc = "done" /\ cresult = ReturnEmpty
          ELSE cpc = "price"

C11_Witness ==
    /\ cpc = "done"
    /\ Len(priceLog) = 2
    /\ priceLog[1].kind = "empty"
    /\ priceLog[2].kind = "rows"
    /\ cresult.kind = "metrics"

\* C12: no exception escapes get_pl_bs_cashflow or
\* calculate_valuation_metrics: each call returns a data result or its empty
\* sentinel, whatever the providers do, also for a non-empty price history
\* from which no Close value can be read.
C12_NoExceptionEscapes ==
    /\ fpc = "done" =>
          (fresult = EmptyStatements \/ fresult.pl # <<>>)
    /\ cpc = "done" => cresult.kind \in {"empty", "metrics"}

\* z = a - b, by cross multiplication
IsDifference(z, a, b) ==
    /\ IsNum(z) /\ IsNum(a) /\ IsNum(b)
    /\ z.n * a.d * b.d = (a.n * b.d - b.n * a.d) * z.d

\* z = a + b, by cross multiplication
IsSum(z, a, b) ==
    /\ IsNum(z) /\ IsNum(a) /\ IsNum(b)
    /\ z.n * a.d * b.d = (a.n * b.d + b.n * a.d) * z.d

NonFinite(x) == x.t \in {"inf", "ninf", "nan"}

\* C13: for every record returned by a successful get_pl_bs_cashflow call
\* Liabilities = TA - Eq and Free_Cash_Flow = CFO + CFI on the coerced values,
\* and a record with Sales = 0 or TA = 0 does not make the fetch fail:
\* Operating_Margin and Equity_Ratio are then non-finite values.
C13_DerivedColumns ==
    /\ fpc = "done" =>
          \A k \in 1..Len(fresult.bs) :
              /\ IsDifference(fresult.bs[k].Liabilities,
                              fresult.bs[k].TA, fresult.bs[k].Eq)
              /\ IsSum(fresult.cf[k].Free_Cash_Flow,
                       fresult.cf[k].CFO, fresult.cf[k].CFI)
              /\ fresult.pl[k].Sales = Num(0) =>
                     NonFinite(fresult.pl[k].Operating_Margin)
              /\ fresult.bs[k].TA = Num(0) =>
                     NonFinite(fresult.bs[k].Equity_Ratio)
    /\ (clean /\ keyless /\ code # "" /\ FrameOK(served)) =>
          /\ fpc = "done"
          /\ Len(fresult.pl) = Len(served)
          /\ \A k \in 1..Len(served) :
                fresult.pl[k].Sales = Coerce(RecordPool[served[k]], "Sales")

C13_Witness ==
    /\ fpc = "done"
    /\ clean
    /\ \E k \in 1..Len(fresult.pl) :
          /\ fresult.pl[k].Sales = Num(0)
          /\ fresult.pl[k].Operating_Margin = PosInf
          /\ fresult.bs[k].TA = Num(0)
          /\ fresult.bs[k].Liabilities = Num(0 - 90)

C15_OneSleepBetweenAttempts ==
    /\ (fpc \in {"request", "page"} /\ spc = "idle") => fsleeps = attempt
    /\ (cpc = "price" /\ spc = "idle") => csleeps = cattempt

-----------------------------------------------------------------------------
(* Claims about the web application *)

\* the value of column c is missing or empty in the provider record r
RawMissing(r, c) == c \notin DOMAIN r \/ r[c].t \in {"null", "empty"}

\* C16: in the pipeline get_pl_bs_cashflow then calculate_valuation_metrics a
\* PL record whose Sales value was missing or empty in the provider response
\* is never the record selected for valuation, and a BS record whose TA was
\* missing in the provider response is never the selected BS record.
C16_MissingRevenueNeverSelected ==
    (spc = "calc" /\ latest_pl_annual # NoPlRow) =>
        /\ \E i \in 1..Len(pl_data) :
              /\ PlRow(pl_data, i) = latest_pl_annual
              /\ ~RawMissing(RecordPool[data[i]], "Sales")
        /\ \E i \in 1..Len(bs_data) :
              /\ BsRow(bs_data, i) = latest_bs_snapshot
              /\ ~RawMissing(RecordPool[data[i]], "TA")

\* C17: execute_search runs the pipeline of each selected company one after
\* another (get_pl_bs_cashflow, then calculate_valuation_metrics only when PL
\* and BS are not empty, then plots and commentary) and returns one company
\* block per selected company, in row order.
C17_OneBlockPerCompanyInOrder ==
    /\ fpc \in {"request", "page"} => spc \in {"idle", "fetch"}
    /\ cpc = "price" => spc \in {"idle", "calc"}
    /\ spc = "calc" => (fresult.pl # <<>> /\ fresult.bs # <<>>)
    /\ (spc = "done" /\ sresult.kind # "text") =>
          /\ sresult.kind = "blocks"
          /\ company_blocks = rows

\* C18: display_page returns dashboard.layout only after a verify_password
\* call in which the submitted password equalled CORRECT_PASSWORD, in any
\* sequence of page loads, URL changes and login submissions.
C18_DashboardOnlyAfterPassword ==
    page_content = "dashboard" => verified

-----------------------------------------------------------------------------
(* Claims about the requests and the result of get_pl_bs_cashflow *)

\* C19: the first request of every retry attempt is the initial request for
\* the code: it carries the code parameter and no pagination_key.
C19_AttemptStartsWithoutKey ==
    (lastReq = "initial" /\ spc = "idle") => sentKey = 0

\* C20: the three sequences returned by get_pl_bs_cashflow have the same
\* length and their k-th entries derive from the same provider record, so
\* either all three are empty or all three are non-empty.
C20_AlignedSequences ==
    /\ Len(fresult.pl) = Len(fresult.bs)
    /\ Len(fresult.bs) = Len(fresult.cf)
    /\ (fpc = "done" /\ fresult.pl # <<>>) =>
          /\ Len(fresult.pl) = Len(data)
          /\ \A k \in 1..Len(data) :
                LET r == RecordPool[data[k]]
                IN  \A part \in {fresult.pl[k], fresult.bs[k], fresult.cf[k]} :
                        /\ part.DocType = DocCell(r)
                        /\ part.CurPerEn = DateCell(r, "CurPerEn")
                        /\ part.CurFYEn = DateCell(r, "CurFYEn")
                        /\ part.Code = CodeCell(r)

C20_Witness ==
    /\ fpc = "done"
    /\ Len(fresult.pl) = 2
    /\ Len(fresult.cf) = 2
    /\ fresult.pl[1].DocType # fresult.pl[2].DocType
    /\ fresult.pl[2].Sales = Num(0)

=============================================================================
